---- MODULE Spec2Model ----
(***************************************************************************)
(* Verification model of the asynchronous research workflow:               *)
(* enqueue -> durable pipeline (plan, search fan-out, content fan-out,     *)
(* consolidate, notify) -> result store <- webhook receiver / poll.        *)
(*                                                                         *)
(* Two shapes of the pipeline are in the repository: the "blogs" shape     *)
(* (plan-research / search-<i> / write-blog-<i> / consolidate / webhook)   *)
(* and the earlier "angles" shape (openrouter-initial /                    *)
(* generate-search-angles / research-angle-<i> / minimax-analysis-<i> /    *)
(* consolidate-results / notify-webhook).  A deployment runs one of them.  *)
(***************************************************************************)
EXTENDS Integers, Sequences, FiniteSets, TLC

(***************************************************************************)
(* Texts.  A text is a sequence of lexemes.  The lexemes that matter to    *)
(* the code are the code-fence marker, the word json, the newline, the     *)
(* JSON punctuation and the double quote; every other lexeme is a word.    *)
(***************************************************************************)
\* the code-fence marker (three backticks)
FENCE == "<fence>"
NL == "\n"
QUOTE == "\""

NumLex == {"0", "7"}

(***************************************************************************)
(* JSON values as JSON.parse builds them.                                  *)
(***************************************************************************)
JNull == [k |-> "null", n |-> 0, s |-> <<>>, a |-> <<>>, f |-> <<>>]
JNum(x) == [k |-> "num", n |-> x, s |-> <<>>, a |-> <<>>, f |-> <<>>]
JStr(x) == [k |-> "str", n |-> 0, s |-> x, a |-> <<>>, f |-> <<>>]
JArr(x) == [k |-> "arr", n |-> 0, s |-> <<>>, a |-> x, f |-> <<>>]
JObj(x) == [k |-> "obj", n |-> 0, s |-> <<>>, a |-> <<>>, f |-> x]
\* undefined is not a JSON value; it is what a missing property reads as
JUndef == [k |-> "undefined", n |-> 0, s |-> <<>>, a |-> <<>>, f |-> <<>>]

\* obj.name for an object built by JSON.parse
Prop(v, name) ==
    IF v.k = "obj" /\ name \in DOMAIN v.f THEN v.f[name] ELSE JUndef

\* JavaScript truthiness of a value
Truthy(v) ==
    CASE v.k = "null" -> FALSE
      [] v.k = "undefined" -> FALSE
      [] v.k = "num" -> v.n # 0
      [] v.k = "str" -> v.s # <<>>
      [] OTHER -> TRUE

ParseFail == [ok |-> FALSE, v |-> JNull, rest |-> <<>>]
ParseOk(val, r) == [ok |-> TRUE, v |-> val, rest |-> r]

RECURSIVE SkipWs(_)
SkipWs(t) == IF t # <<>> /\ Head(t) = NL THEN SkipWs(Tail(t)) ELSE t

\* the inside of a string literal, up to the closing quote; a raw newline
\* is a control character and is rejected
RECURSIVE ParseString(_, _)
ParseString(t, acc) ==
    IF t = <<>> THEN ParseFail
    ELSE IF Head(t) = QUOTE THEN ParseOk(JStr(acc), Tail(t))
    ELSE IF Head(t) = NL THEN ParseFail
    ELSE ParseString(Tail(t), Append(acc, Head(t)))

RECURSIVE ParseValue(_)
RECURSIVE ParseElements(_, _)
RECURSIVE ParseMembers(_, _)

ParseValue(t) ==
    LET u == SkipWs(t) IN
    IF u = <<>> THEN ParseFail
    ELSE CASE Head(u) = "null" -> ParseOk(JNull, Tail(u))
           [] Head(u) \in NumLex ->
                ParseOk(JNum(IF Head(u) = "0" THEN 0 ELSE 7), Tail(u))
           [] Head(u) = QUOTE -> ParseString(Tail(u), <<>>)
           [] Head(u) = "[" ->
                LET w == SkipWs(Tail(u)) IN
                IF w # <<>> /\ Head(w) = "]"
                THEN ParseOk(JArr(<<>>), Tail(w))
                ELSE ParseElements(w, <<>>)
           [] Head(u) = "{" ->
                LET w == SkipWs(Tail(u)) IN
                IF w # <<>> /\ Head(w) = "}"
                THEN ParseOk(JObj(<<>>), Tail(w))
                ELSE ParseMembers(w, <<>>)
           [] OTHER -> ParseFail

\* value ("," value)* "]"
ParseElements(t, acc) ==
    LET r == ParseValue(t) IN
    IF ~r.ok THEN ParseFail
    ELSE LET w == SkipWs(r.rest) IN
         IF w = <<>> THEN ParseFail
         ELSE IF Head(w) = "]" THEN ParseOk(JArr(Append(acc, r.v)), Tail(w))
         ELSE IF Head(w) = "," THEN ParseElements(Tail(w), Append(acc, r.v))
         ELSE ParseFail

\* string ":" value ("," string ":" value)* "}" ; a repeated key keeps the
\* last value
ParseMembers(t, acc) ==
    LET u == SkipWs(t) IN
    IF u = <<>> \/ Head(u) # QUOTE THEN ParseFail
    ELSE LET key == ParseString(Tail(u), <<>>) IN
         IF ~key.ok THEN ParseFail
         ELSE LET c == SkipWs(key.rest) IN
              IF c = <<>> \/ Head(c) # ":" THEN ParseFail
              ELSE LET r == ParseValue(Tail(c)) IN
                   IF ~r.ok THEN ParseFail
                   ELSE LET w == SkipWs(r.rest)
                            g == (key.v.s :> r.v) @@ acc
                        IN IF w = <<>> THEN ParseFail
                           ELSE IF Head(w) = "}" THEN ParseOk(JObj(g), Tail(w))
                           ELSE IF Head(w) = "," THEN ParseMembers(Tail(w), g)
                           ELSE ParseFail

\* JSON.parse(text): ok = FALSE stands for the SyntaxError
JSONParse(t) ==
    LET r == ParseValue(t) IN
    IF r.ok /\ SkipWs(r.rest) = <<>> THEN r ELSE ParseFail

\* content.replace(/<fence>json\n?|\n?<fence>/g, ""): the text is scanned
\* left to right and at each position the first alternative is tried before
\* the second.  Every fence marker is deleted by one or the other.  The word
\* json is deleted when the first alternative matched at the marker before
\* it: the marker was not already taken, with a newline before it, by the
\* second alternative.  A newline is deleted when it closes a match of the
\* first alternative or when a marker follows it.
RECURSIVE JsonDeleted(_, _)
JsonDeleted(t, i) ==
    /\ i >= 2
    /\ t[i] = "json"
    /\ t[i - 1] = FENCE
    /\ ~(i >= 3 /\ t[i - 2] = NL /\ ~(i >= 4 /\ JsonDeleted(t, i - 3)))

Deleted(t, i) ==
    \/ t[i] = FENCE
    \/ JsonDeleted(t, i)
    \/ /\ t[i] = NL
       /\ \/ i >= 3 /\ JsonDeleted(t, i - 1)
          \/ i < Len(t) /\ t[i + 1] = FENCE

\* the lexemes lo..hi of t that the replace keeps
RECURSIVE Kept(_, _, _)
Kept(t, lo, hi) ==
    IF lo > hi THEN <<>>
    ELSE IF lo = hi THEN (IF Deleted(t, lo) THEN <<>> ELSE <<t[lo]>>)
    ELSE LET mid == (lo + hi) \div 2 IN Kept(t, lo, mid) \o Kept(t, mid + 1, hi)

StripFences(t) == Kept(t, 1, Len(t))

(***************************************************************************)
(* Bounds of the model.                                                    *)
(***************************************************************************)
\* research identifiers the enqueue endpoint can hand out
MaxJobs == 2
\* longest plan the planner model emits in the pipeline specification
MaxPlan == 2
\* longest list the planner model emits in the planner specification
MaxElems == 12
\* largest reading of the wall clock
MaxClock == 1

RIDs == 1..MaxJobs

(***************************************************************************)
(* Program constants.                                                      *)
(***************************************************************************)
\* searchQueries.slice(0, 10) / searchAngles.slice(0, 10)
PlanCap == 10

Min(x, y) == IF x < y THEN x ELSE y

\* the missing value of a string-typed field (undefined)
UNDEF == "<undefined>"
\* the value a Map.get of an absent key returns, and a missing results field
NoRecord == [absent |-> TRUE]
NoResults == [shape |-> "undefined"]

(***************************************************************************)
(* What the planner model can answer.  The model emits a value (emitted),  *)
(* renders it as text and may wrap the text in a code fence.               *)
(***************************************************************************)
K(name) == <<name>>

\* the i-th sub-query {query, type, context} of an emitted list;
\* the second sub-query quotes a code-fence marker in its query
SubQueryWords(i, fenced) ==
    IF fenced /\ i = 2 THEN <<"q", ToString(i), FENCE, "md">>
    ELSE <<"q", ToString(i)>>
SubQuery(i, fenced) ==
    JObj((K("query") :> JStr(SubQueryWords(i, fenced)))
         @@ (K("type") :> JStr(<<"what">>))
         @@ (K("context") :> JStr(<<"ctx">>)))

RenderStr(w) == <<QUOTE>> \o w \o <<QUOTE>>
RenderSubQuery(i, fenced) ==
    <<"{">> \o RenderStr(<<"query">>) \o <<":">> \o RenderStr(SubQueryWords(i, fenced))
    \o <<",">> \o RenderStr(<<"type">>) \o <<":">> \o RenderStr(<<"what">>)
    \o <<",">> \o RenderStr(<<"context">>) \o <<":">> \o RenderStr(<<"ctx">>)
    \o <<"}">>

RECURSIVE RenderList(_, _, _)
RenderList(i, n, fenced) ==
    IF i > n THEN <<>>
    ELSE RenderSubQuery(i, fenced)
         \o (IF i < n THEN <<",">> ELSE <<>>)
         \o RenderList(i + 1, n, fenced)

EmittedList(n, fenced) == [i \in 1..n |-> SubQuery(i, fenced)]

\* shapes of the emitted answer
\*   array      [ sq1, ..., sqn ]
\*   queries    { "queries": [ sq1, ..., sqn ] }
\*   nonarray   { "queries": "q" }       (a queries field that is no list)
\*   noqueries  { "note": "q" }
\*   null       null
\*   scalar     7
\*   prose      words that are no JSON
\*   cut        [ sq1, ..., sqn          (the answer stops before the "]")
\*   empty      the empty text
Shapes == {"array", "queries", "nonarray", "noqueries", "null", "scalar",
           "prose", "cut", "empty"}
Wraps == {"none", "json", "jsonflat", "plain", "blankline"}

RenderShape(shape, n, fenced) ==
    CASE shape = "array" -> <<"[">> \o RenderList(1, n, fenced) \o <<"]">>
      [] shape = "queries" ->
            <<"{">> \o RenderStr(<<"queries">>) \o <<":", "[">>
            \o RenderList(1, n, fenced) \o <<"]", "}">>
      [] shape = "nonarray" ->
            <<"{">> \o RenderStr(<<"queries">>) \o <<":">> \o RenderStr(<<"q">>) \o <<"}">>
      [] shape = "noqueries" ->
            <<"{">> \o RenderStr(<<"note">>) \o <<":">> \o RenderStr(<<"q">>) \o <<"}">>
      [] shape = "null" -> <<"null">>
      [] shape = "scalar" -> <<"7">>
      [] shape = "prose" -> <<"Here", "are", "the", "queries">>
      [] shape = "cut" -> <<"[">> \o RenderList(1, n, fenced)
      [] OTHER -> <<>>

\* the fence the model puts around its answer
\*   json       <fence>json NL answer NL <fence>
\*   jsonflat   <fence>json answer <fence>
\*   plain      <fence> NL answer NL <fence>
\*   blankline  NL <fence>json NL answer NL <fence>
RenderWrap(wrap, t) ==
    CASE wrap = "json" -> <<FENCE, "json", NL>> \o t \o <<NL, FENCE>>
      [] wrap = "jsonflat" -> <<FENCE, "json">> \o t \o <<FENCE>>
      [] wrap = "plain" -> <<FENCE, NL>> \o t \o <<NL, FENCE>>
      [] wrap = "blankline" -> <<NL, FENCE, "json", NL>> \o t \o <<NL, FENCE>>
      [] OTHER -> t

Emitted(shape, n, fenced, wrap) ==
    [shape |-> shape, n |-> n, fenced |-> fenced, wrap |-> wrap]
NoEmitted == Emitted("none", 0, FALSE, "none")

EmittedText(e) ==
    IF e.shape = "empty" THEN <<>>
    ELSE RenderWrap(e.wrap, RenderShape(e.shape, e.n, e.fenced))

(***************************************************************************)
(* Responses of context.call: {status, body}.  The body of a chat          *)
(* completion is null, an object without choices[0].message.content, or    *)
(* an object with that content.                                            *)
(***************************************************************************)
ChatResponse(st, kind, text, e) ==
    [status |-> st, kind |-> kind, text |-> text, emitted |-> e]
Pending == [kind |-> "pending"]
IsPending(r) == r.kind = "pending"

\* body.choices?.[0]?.message?.content of a body that is not null
ContentOf(r) == IF r.kind = "content" THEN r.text ELSE <<>>

PlanResponseOf(e) == ChatResponse(200, "content", EmittedText(e), e)
FailedResponses ==
    { ChatResponse(500, "nocontent", <<>>, NoEmitted),
      ChatResponse(200, "null", <<>>, NoEmitted) }


\* responses of the search API: {status, body}; the body is null, an
\* object without organic_results, or an object with the list
SearchResponse(st, kind, organic) ==
    [status |-> st, kind |-> kind, organic |-> organic]
\* result.body.organic_results || []
OrganicOf(r) == IF r.kind = "results" THEN r.organic ELSE <<>>

(***************************************************************************)
(* The code between the planner step and the fan-out.                      *)
(***************************************************************************)
\* a fallback that rewrites the query, as the angles shape does for its
\* second angle
FallbackQueries_Overview(query) ==
    JArr(<< JObj((K("query") :> JStr(query \o <<" overview">>))
                 @@ (K("type") :> JStr(<<"what">>))
                 @@ (K("context") :> JStr(<<"Fallback", "query">>))) >>)

\* [{ query: query, type: "what", context: "Fallback query" }]
FallbackQueries(query) ==
    JArr(<< JObj((K("query") :> JStr(query))
                 @@ (K("type") :> JStr(<<"what">>))
                 @@ (K("context") :> JStr(<<"Fallback", "query">>))) >>)

\* [query, `${query} overview`, `${query} analysis`]
FallbackAngles(query) ==
    JArr(<< JStr(query), JStr(query \o <<" overview">>),
            JStr(query \o <<" analysis">>) >>)

\* ... .message?.content || "[]"
PlanContent(res) ==
    IF ContentOf(res) # <<>> THEN ContentOf(res) ELSE <<"[", "]">>

\* the try/catch of the blogs shape: the value left in searchQueries
ParseSearchQueries(res, query) ==
    IF res.kind = "null" THEN FallbackQueries(query)
    ELSE LET r == JSONParse(StripFences(PlanContent(res))) IN
         IF ~r.ok THEN FallbackQueries(query)
         ELSE IF r.v.k = "arr" THEN r.v
         ELSE IF r.v.k = "null" THEN FallbackQueries(query)
         ELSE IF Truthy(Prop(r.v, K("queries"))) THEN Prop(r.v, K("queries"))
         ELSE JArr(<<>>)

\* the try/catch of the angles shape: the value left in searchAngles
ParseSearchAngles(res, query) ==
    IF res.kind = "null" THEN FallbackAngles(query)
    ELSE LET r == JSONParse(PlanContent(res)) IN
         IF ~r.ok THEN FallbackAngles(query) ELSE r.v

\* the fan-out over the whole list, without the slice
SliceMap_NoCap(v, n) ==
    IF v.k = "arr"
    THEN [raise |-> FALSE, list |-> v.a]
    ELSE [raise |-> TRUE, list |-> <<>>]

\* v.slice(0, n).map(...): an array yields its first n elements; on any
\* other value slice or map is not a function and the handler throws
SliceMap(v, n) ==
    IF v.k = "arr"
    THEN [raise |-> FALSE, list |-> SubSeq(v.a, 1, Min(n, Len(v.a)))]
    ELSE [raise |-> TRUE, list |-> <<>>]

PlanOf(impl, res, query) ==
    IF impl = "blogs"
    THEN SliceMap(ParseSearchQueries(res, query), PlanCap)
    ELSE SliceMap(ParseSearchAngles(res, query), PlanCap)

(***************************************************************************)
(* State.                                                                  *)
(***************************************************************************)
VARIABLES
    env,            \* deployment: pipeline shape and WEBHOOK_SECRET
    now,            \* wall clock
    researchCache,  \* the result store: researchId -> record
    run,            \* the workflow run of each researchId
    response,       \* the HTTP response, or the outgoing call, the step just
                    \* taken has sent, if any
    client          \* the page in the browser of one user

vars == <<env, now, researchCache, run, response, client>>

Queries == {<<"solid", "state">>, <<"batteries">>}
UserIds == {"anonymous"}
Secrets == {UNDEF, "s3cret"}
NoTime == -1

\* the page as it is loaded: let query = "", researchId = null,
\* results = null, loading = false, checking = false, pollInterval = null;
\* no timer runs and no request is under way.  timers are the intervals
\* that are active, created counts those setInterval has made, polls are
\* the status requests under way, posting and reply the enqueue request
\* under way and its response, saved is localStorage's researchId;
\* wasReset and finished record what has happened and are not read by the
\* page.
NoId == 0
NoTimer == 0
NoReply == [op |-> "none", code |-> 0]
IdleClient ==
    [researchId |-> NoId, results |-> NoResults, loading |-> FALSE,
     checking |-> FALSE, pollInterval |-> NoTimer, timers |-> {},
     created |-> 0, polls |-> {}, query |-> <<>>, posting |-> FALSE,
     reply |-> NoReply, saved |-> NoId, wasReset |-> FALSE, finished |-> {}]

IdleRun ==
    [pc |-> "idle", query |-> <<>>, userId |-> UNDEF,
     initialResearch |-> <<>>, planResult |-> Pending,
     searchQueries |-> <<>>, searchResults |-> <<>>,
     writeRequests |-> <<>>, blogPosts |-> <<>>,
     reordered |-> FALSE, ran |-> FALSE, finalContent |-> NoResults,
     webhookBody |-> NoRecord, notified |-> FALSE]

\* a step that serves no poll or webhook request sends no response
NoResponse == [op |-> "none", code |-> 0]

Init ==
    /\ env \in [impl : {"blogs", "angles"}, WEBHOOK_SECRET : Secrets]
    /\ now = 0
    /\ researchCache = [r \in RIDs |-> NoRecord]
    /\ run = [r \in RIDs |-> IdleRun]
    /\ response = NoResponse
    /\ client = IdleClient

\* new Date() / Date.now(): a reading t of the clock, not before the
\* latest reading
ReadClock(t) == t \in now..MaxClock /\ now' = t


(***************************************************************************)
(* Enqueue: the job is handed to the executor, which starts the run.       *)
(***************************************************************************)
FirstStage(impl) == IF impl = "angles" THEN "initial" ELSE "plan"

\* an endpoint that takes a new job only when the runs before it are over
FreshId_Serial(rid) ==
    /\ run[rid].pc = "idle"
    /\ \A r \in RIDs : r < rid => run[r].pc \in {"done", "failed"}

\* research-<timestamp>-<random>: an identifier not handed out before
FreshId(rid) ==
    /\ run[rid].pc = "idle"
    /\ \A r \in RIDs : r < rid => run[r].pc # "idle"

\* qstash.publishJSON({ url, body: { query, userId, researchId } }): the
\* executor starts the run of rid at its first step
Publish(rid, query, userId) ==
    [run EXCEPT ![rid] =
        [IdleRun EXCEPT !.pc = FirstStage(env.impl),
                        !.query = query,
                        !.userId = userId]]

Enqueue(rid, query, userId) ==
    /\ FreshId(rid)
    /\ run' = Publish(rid, query, userId)
    /\ response' = NoResponse
    /\ UNCHANGED <<env, now, researchCache, client>>

(***************************************************************************)
(* The enqueue endpoint: POST with headers x-api-key, origin, host and a   *)
(* JSON body {query, userId}.                                              *)
(***************************************************************************)
\* a request whose body is no JSON
Malformed == [malformed |-> TRUE]

\* request.headers.get(name) of a header the request does not carry: null
\* (NoHeader for the key header, Absent for the headers read as text)
NoHeader == "<null>"
Absent == <<NoHeader>>

\* String.prototype.includes
Includes(str, part) ==
    \E k \in 0..(Len(str) - Len(part)) : SubSeq(str, k + 1, k + Len(part)) = part

\* String.prototype.trim
Whitespace == {" ", NL, "\t", "\r"}
RECURSIVE TrimStart(_)
TrimStart(w) ==
    IF w # <<>> /\ Head(w) \in Whitespace THEN TrimStart(Tail(w)) ELSE w
RECURSIVE TrimEnd(_)
TrimEnd(w) ==
    IF w # <<>> /\ w[Len(w)] \in Whitespace
    THEN TrimEnd(SubSeq(w, 1, Len(w) - 1)) ELSE w
Trim(w) == TrimEnd(TrimStart(w))

(***************************************************************************)
(* sanitize.  A text is a sequence of characters; a character beyond       *)
(* those of the keyboard is written by the name of its code point.         *)
(***************************************************************************)
\* the class [\u2018\u2019\u201C\u201D]
SmartQuotes == {"U+2018", "U+2019", "U+201C", "U+201D"}
\* characters outside \x00-\x7F that are no smart quotes: e acute and the
\* no-break space
OtherNonAscii == {"U+00E9", "U+00A0"}
\* characters inside \x00-\x7F that are not printable: the controls, here
\* CR, LF, TAB, U+0001 and DEL
Controls == {"\r", NL, "\t", "U+0001", "U+007F"}
\* the class [^\x00-\x7F]
NonAscii(c) == c \in SmartQuotes \cup OtherNonAscii

\* an environment variable that is not set
Unset == <<UNDEF>>

\* if (!str) return ""; str.replace(smart quotes, '').replace(non-ASCII, '').trim()
Sanitize(str) ==
    IF str = Unset \/ str = <<>> THEN <<>>
    ELSE Trim(SelectSeq(SelectSeq(str, LAMBDA c : c \notin SmartQuotes),
                        LAMBDA c : ~NonAscii(c)))

\* the headers of the first call of a run: Authorization is
\* "Bearer " + sanitize(env.OPENROUTER_API_KEY)
CallRequest(rid, key) ==
    [op |-> "call", researchId |-> rid, code |-> 0,
     authorization |-> <<"Bearer", " ">> \o Sanitize(key)]

\* the handler of the run of rid is invoked and issues its first call
FirstCall(rid) ==
    /\ run[rid].pc = FirstStage(env.impl)
    /\ response' = CallRequest(rid, env.OPENROUTER_API_KEY)
    /\ UNCHANGED <<env, now, researchCache, run, client>>

\* origin && origin.includes(host || "")
IsInternal(req) ==
    /\ req.origin # Absent
    /\ req.origin # <<>>
    /\ Includes(req.origin, IF req.host = Absent THEN <<>> ELSE req.host)

\* apiKey === COZY_API_KEY
IsAuthenticated(req, key) == req.apiKey = key

\* if (!isInternal && !isAuthenticated) { if (COZY_API_KEY) return 401 }
Unauthorized(req, key) ==
    /\ ~IsInternal(req)
    /\ ~IsAuthenticated(req, key)
    /\ key # UNDEF

\* const { query, userId } = await request.json() throws on a body that is
\* no JSON and on the body null; query?.trim() throws on a query that is
\* neither a string nor null nor undefined
BodyThrows(body) ==
    \/ body = Malformed
    \/ body.k = "null"
    \/ Prop(body, K("query")).k \notin {"str", "null", "undefined"}

\* a check of the query as it is, without the trim
BlankQuery_NoTrim(body) ==
    LET query == Prop(body, K("query")) IN
    query.k \in {"null", "undefined"} \/ query.s = <<>>

\* !query?.trim()
BlankQuery(body) ==
    LET query == Prop(body, K("query")) IN
    query.k \in {"null", "undefined"} \/ Trim(query.s) = <<>>

\* userId || "anonymous"
UserIdOf(body) ==
    LET userId == Prop(body, K("userId")) IN
    IF Truthy(userId) /\ userId.k = "str" THEN userId.s[1] ELSE "anonymous"

EnqueueResponse(code, rid, status, error) ==
    [op |-> "enqueue", code |-> code, researchId |-> rid, status |-> status,
     error |-> error]
ErrorResponse(code, error) == EnqueueResponse(code, 0, UNDEF, error)

\* a handler that answers before the hand-off has settled: a failed
\* publishJSON goes unnoticed
Accept_NoAwait(req, delivered) ==
    IF BodyThrows(req.body)
    THEN /\ response' = ErrorResponse(500, "Failed to start research")
         /\ UNCHANGED run
    ELSE IF BlankQuery(req.body)
    THEN /\ response' = ErrorResponse(400, "Query is required")
         /\ UNCHANGED run
    ELSE \E rid \in RIDs :
            /\ FreshId(rid)
            /\ run' = IF delivered
                      THEN Publish(rid, Prop(req.body, K("query")).s, UserIdOf(req.body))
                      ELSE run
            /\ response' = EnqueueResponse(200, rid, "processing", UNDEF)

\* lines 48-86 of the handler, shared by both versions: validation, the
\* new researchId, the hand-off, the response; delivered tells whether
\* publishJSON resolves or throws
Accept(req, delivered) ==
    IF BodyThrows(req.body)
    THEN /\ response' = ErrorResponse(500, "Failed to start research")
         /\ UNCHANGED run
    ELSE IF BlankQuery(req.body)
    THEN /\ response' = ErrorResponse(400, "Query is required")
         /\ UNCHANGED run
    ELSE IF ~delivered
    THEN /\ response' = ErrorResponse(500, "Failed to start research")
         /\ UNCHANGED run
    ELSE \E rid \in RIDs :
            /\ FreshId(rid)
            /\ run' = Publish(rid, Prop(req.body, K("query")).s, UserIdOf(req.body))
            /\ response' = EnqueueResponse(200, rid, "processing", UNDEF)

\* the handler of the enqueue endpoint
EnqueueServe(req, delivered) ==
    /\ IF Unauthorized(req, env.COZY_API_KEY)
       THEN /\ response' = ErrorResponse(401, "Unauthorized: Invalid or missing API Key")
            /\ UNCHANGED run
       ELSE Accept(req, delivered)
    /\ UNCHANGED <<env, now, researchCache>>

\* POST of the enqueue endpoint, from a caller other than the page
EnqueuePOST(req, delivered) ==
    /\ EnqueueServe(req, delivered)
    /\ UNCHANGED client

\* POST of the earlier version of the enqueue endpoint, without the
\* security check
EnqueueEarlierPOST(req, delivered) ==
    /\ Accept(req, delivered)
    /\ UNCHANGED <<env, now, researchCache, client>>

Fail(rid) == [run EXCEPT ![rid].pc = "failed"]

(***************************************************************************)
(* The pipeline.                                                           *)
(***************************************************************************)
\* angles shape, step openrouter-initial and the status check after it
InitialResolve(rid, res) ==
    /\ env.impl = "angles"
    /\ run[rid].pc = "initial"
    /\ run' = IF res.status # 200 \/ res.kind = "null"
              THEN Fail(rid)
              ELSE [run EXCEPT ![rid].pc = "plan",
                               ![rid].initialResearch = ContentOf(res)]
    /\ response' = NoResponse
    /\ UNCHANGED <<env, now, researchCache, client>>

\* step plan-research / generate-search-angles, the parse, the slice and the
\* issue of the first fan-out
PlanResolve(rid, res) ==
    /\ run[rid].pc = "plan"
    /\ LET p == PlanOf(env.impl, res, run[rid].query) IN
       run' = IF p.raise
              THEN [Fail(rid) EXCEPT ![rid].planResult = res]
              ELSE [run EXCEPT ![rid].pc = "search",
                               ![rid].planResult = res,
                               ![rid].searchQueries = p.list,
                               ![rid].searchResults =
                                   [i \in 1..Len(p.list) |-> Pending]]
    /\ response' = NoResponse
    /\ UNCHANGED <<env, now, researchCache, client>>

\* step i resolves while a sibling of lower index is still pending (recorded
\* in run[rid].reordered; the code does not read it)
Overtakes(list, i) == \E j \in DOMAIN list : j < i /\ IsPending(list[j])

\* step search-<i-1> / research-angle-<i-1> resolves
SearchResolve(rid, i, res) ==
    /\ run[rid].pc = "search"
    /\ i \in DOMAIN run[rid].searchResults
    /\ IsPending(run[rid].searchResults[i])
    /\ run' = [run EXCEPT ![rid].searchResults[i] = res,
                          ![rid].reordered = @ \/ Overtakes(run[rid].searchResults, i)]
    /\ response' = NoResponse
    /\ UNCHANGED <<env, now, researchCache, client>>

\* a join that goes on as soon as the first sibling has resolved
AllResolved_First(list) == IF list = <<>> THEN TRUE ELSE ~IsPending(list[1])

AllResolved(list) == \A i \in DOMAIN list : ~IsPending(list[i])

\* a prompt that puts a placeholder where the search found nothing
WriteRequest_Placeholder(queryItem, result) ==
    [query |-> queryItem,
     snippets |-> IF OrganicOf(result) = <<>> THEN <<"No", "results">>
                  ELSE OrganicOf(result)]

\* the prompt of write-blog-<i-1>: queryItem and the joined snippets
WriteRequest(queryItem, result) ==
    [query |-> queryItem, snippets |-> OrganicOf(result)]
\* the prompt of minimax-analysis-<i-1>: the content of the deep dive
AnalysisRequest(angle, result) ==
    [query |-> angle, snippets |-> ContentOf(result)]

\* Promise.all of the first fan-out has resolved: the second fan-out is
\* issued; reading a property of a null body or of a null queryItem throws
SearchJoin(rid) ==
    /\ run[rid].pc = "search"
    /\ AllResolved(run[rid].searchResults)
    /\ LET sq == run[rid].searchQueries
           sr == run[rid].searchResults
           throws == \E i \in DOMAIN sr :
                        \/ sr[i].kind = "null"
                        \/ env.impl = "blogs" /\ sq[i].k = "null"
       IN run' = IF throws THEN Fail(rid)
                 ELSE [run EXCEPT
                         ![rid].pc = "write",
                         ![rid].writeRequests =
                             [i \in DOMAIN sr |->
                                 IF env.impl = "blogs"
                                 THEN WriteRequest(sq[i], sr[i])
                                 ELSE AnalysisRequest(sq[i], sr[i])],
                         ![rid].blogPosts = [i \in DOMAIN sr |-> Pending]]
    /\ response' = NoResponse
    /\ UNCHANGED <<env, now, researchCache, client>>

\* step write-blog-<i-1> / minimax-analysis-<i-1> resolves
WriteResolve(rid, i, res) ==
    /\ run[rid].pc = "write"
    /\ i \in DOMAIN run[rid].blogPosts
    /\ IsPending(run[rid].blogPosts[i])
    /\ run' = [run EXCEPT ![rid].blogPosts[i] = res,
                          ![rid].reordered = @ \/ Overtakes(run[rid].blogPosts, i)]
    /\ response' = NoResponse
    /\ UNCHANGED <<env, now, researchCache, client>>

\* a handler that goes on to the consolidation without awaiting the second
\* fan-out
WriteJoin_NoWait(rid) ==
    /\ run[rid].pc = "write"
    /\ run' = [run EXCEPT ![rid].pc = "consolidate"]
    /\ response' = NoResponse
    /\ UNCHANGED <<env, now, researchCache, client>>

\* Promise.all of the second fan-out has resolved
WriteJoin(rid) ==
    /\ run[rid].pc = "write"
    /\ AllResolved(run[rid].blogPosts)
    /\ run' = [run EXCEPT ![rid].pc = "consolidate"]
    /\ response' = NoResponse
    /\ UNCHANGED <<env, now, researchCache, client>>


(***************************************************************************)
(* Consolidation.                                                          *)
(***************************************************************************)
Sentinel == <<"Failed to generate content.">>

\* a consolidation that keeps only the posts that have content
Blogs_SkipEmpty(searchQueries, blogPosts) ==
    LET kept == SelectSeq(blogPosts, LAMBDA post : ContentOf(post) # <<>>) IN
    [i \in DOMAIN kept |->
        [query |-> searchQueries[i], content |-> ContentOf(kept[i])]]

\* blogPosts.map((post, i) => ({ query: searchQueries[i], content: ... }))
Blogs(searchQueries, blogPosts) ==
    [i \in DOMAIN blogPosts |->
        [query |-> searchQueries[i],
         content |-> IF ContentOf(blogPosts[i]) # <<>>
                     THEN ContentOf(blogPosts[i]) ELSE Sentinel]]

\* resultData of the blogs shape
ResultData(rid, r, t) ==
    [shape |-> "blogs", researchId |-> rid, query |-> r.query,
     blogs |-> Blogs(r.searchQueries, r.blogPosts), completedAt |-> t]

\* consolidationData of the angles shape
ConsolidationData(rid, r, t) ==
    [shape |-> "angles", query |-> r.query, researchId |-> rid,
     initialResearch |-> r.initialResearch,
     searchAngles |-> SubSeq(r.searchQueries, 1, Min(PlanCap, Len(r.searchQueries))),
     deepDives |-> [i \in DOMAIN r.searchResults |->
                       [status |-> r.searchResults[i].status,
                        content |-> ContentOf(r.searchResults[i])]],
     minimaxAnalysis |-> [i \in DOMAIN r.blogPosts |->
                       [status |-> r.blogPosts[i].status,
                        analysis |-> ContentOf(r.blogPosts[i])]],
     completedAt |-> t, processingTimeMs |-> t]

Consolidated(impl, rid, r, t) ==
    IF impl = "blogs" THEN ResultData(rid, r, t) ELSE ConsolidationData(rid, r, t)

\* a consolidation that, executed again, appends its sections to those it
\* stored before
ConsolidatedRecord_Appending(impl, rid, r, t) ==
    [researchId |-> rid, userId |-> r.userId, status |-> "completed",
     results |-> IF r.ran /\ impl = "blogs"
                 THEN [Consolidated(impl, rid, r, t) EXCEPT
                          !.blogs = r.finalContent.blogs \o @]
                 ELSE Consolidated(impl, rid, r, t),
     completedAt |-> NoTime,
     cachedAt |-> IF impl = "blogs" THEN NoTime ELSE t]

\* the record the consolidation step stores; only the angles shape stamps
\* cachedAt
ConsolidatedRecord(impl, rid, r, t) ==
    [researchId |-> rid, userId |-> r.userId, status |-> "completed",
     results |-> Consolidated(impl, rid, r, t), completedAt |-> NoTime,
     cachedAt |-> IF impl = "blogs" THEN NoTime ELSE t]

\* researchCache.set(key, record)
CacheSet(cache, key, record) == [cache EXCEPT ![key] = record]

\* a consolidation step that returns its data without storing a record
ConsolidateRun_ReturnOnly(rid, t) ==
    /\ run[rid].pc = "consolidate"
    /\ IF \E i \in DOMAIN run[rid].blogPosts : run[rid].blogPosts[i].kind = "null"
       THEN /\ run' = Fail(rid)
            /\ UNCHANGED <<researchCache, now>>
       ELSE /\ ReadClock(t)
            /\ UNCHANGED researchCache
            /\ run' = [run EXCEPT
                         ![rid].ran = TRUE,
                         ![rid].finalContent =
                             Consolidated(env.impl, rid, run[rid], t)]
    /\ response' = NoResponse
    /\ UNCHANGED <<env, client>>

\* the function of step consolidate / consolidate-results is executed; the
\* executor may execute it again before it records the step as completed.
\* Reading a property of a null body throws inside the step.
ConsolidateRun(rid, t) ==
    /\ run[rid].pc = "consolidate"
    /\ IF \E i \in DOMAIN run[rid].blogPosts : run[rid].blogPosts[i].kind = "null"
       THEN /\ run' = Fail(rid)
            /\ UNCHANGED <<researchCache, now>>
       ELSE /\ ReadClock(t)
            /\ researchCache' =
                  CacheSet(researchCache, rid,
                           ConsolidatedRecord(env.impl, rid, run[rid], t))
            /\ run' = [run EXCEPT
                         ![rid].ran = TRUE,
                         ![rid].finalContent =
                             Consolidated(env.impl, rid, run[rid], t)]
    /\ response' = NoResponse
    /\ UNCHANGED <<env, client>>

\* the executor records the step's return value and the handler goes on
ConsolidateAck(rid) ==
    /\ run[rid].pc = "consolidate"
    /\ run[rid].ran
    /\ run' = [run EXCEPT ![rid].pc = "webhook"]
    /\ response' = NoResponse
    /\ UNCHANGED <<env, now, researchCache, client>>

(***************************************************************************)
(* Notification.                                                           *)
(***************************************************************************)
\* a webhook request body as the receiver reads it: a field that is not in
\* the JSON reads as undefined
Payload(rid, userId, status, results, completedAt, secret) ==
    [researchId |-> rid, userId |-> userId, status |-> status,
     results |-> results, completedAt |-> completedAt, secret |-> secret]

\* a notification that names the first job whatever run sends it
WebhookBody_FirstId(impl, rid, r, secret, t) ==
    IF impl = "blogs"
    THEN Payload(Min(rid, 1), UNDEF, UNDEF, NoResults,
                 r.finalContent.completedAt, secret)
    ELSE Payload(Min(rid, 1), r.userId, "completed", r.finalContent, t, secret)

\* blogs shape: { ...finalContent, secret: env.WEBHOOK_SECRET }
\* angles shape: { researchId, userId, status: "completed",
\*                 results: consolidated, completedAt, secret }
WebhookBody(impl, rid, r, secret, t) ==
    IF impl = "blogs"
    THEN Payload(r.finalContent.researchId, UNDEF, UNDEF, NoResults,
                 r.finalContent.completedAt, secret)
    ELSE Payload(rid, r.userId, "completed", r.finalContent, t, secret)

\* step webhook / notify-webhook is issued; only the angles shape reads the
\* clock for the body
WebhookSend(rid, t) ==
    /\ run[rid].pc = "webhook"
    /\ IF env.impl = "blogs" THEN UNCHANGED now ELSE ReadClock(t)
    /\ run' = [run EXCEPT
                 ![rid].pc = "notifying",
                 ![rid].webhookBody =
                     WebhookBody(env.impl, rid, run[rid], env.WEBHOOK_SECRET, t)]
    /\ response' = NoResponse
    /\ UNCHANGED <<env, researchCache, client>>

\* requests the executor has sent and may deliver, once or again
InFlight == {run[r].webhookBody : r \in {x \in RIDs : run[x].pc \in {"notifying", "done"}}}

\* requests of other senders, who do not hold the server's secret
ExternalPayloads ==
    {Payload(r, "mallory", st, NoResults, NoTime, sec) :
        r \in RIDs, st \in {"failed"}, sec \in {UNDEF, "guess"}}

\* the record the receiver stores
WebhookRecord(payload, t) ==
    [researchId |-> payload.researchId, userId |-> payload.userId,
     status |-> payload.status, results |-> payload.results,
     completedAt |-> payload.completedAt, cachedAt |-> t]

\* a check that lets a request without a secret field through
SecretMismatch_WhenPresent(payload, secret) ==
    payload.secret # UNDEF /\ payload.secret # secret

\* payload.secret !== env.WEBHOOK_SECRET
SecretMismatch(payload, secret) == payload.secret # secret

WebhookResponse(payload, code) == [op |-> "webhook", code |-> code]

\* POST of the webhook receiver
WebhookPOST(payload, t) ==
    /\ IF payload = Malformed
       THEN /\ response' = WebhookResponse(payload, 500)
            /\ UNCHANGED <<researchCache, now>>
       ELSE IF SecretMismatch(payload, env.WEBHOOK_SECRET)
       THEN /\ response' = WebhookResponse(payload, 401)
            /\ UNCHANGED <<researchCache, now>>
       ELSE /\ ReadClock(t)
            /\ researchCache' = CacheSet(researchCache, payload.researchId,
                                         WebhookRecord(payload, t))
            /\ response' = WebhookResponse(payload, 200)
    /\ run' = [r \in RIDs |->
                 IF run[r].pc = "notifying" /\ run[r].webhookBody = payload
                 THEN [run[r] EXCEPT !.notified = TRUE]
                 ELSE run[r]]
    /\ UNCHANGED <<env, client>>

\* the notification call has returned and the handler returns
RunFinish(rid) ==
    /\ run[rid].pc = "notifying"
    /\ run[rid].notified
    /\ run' = [run EXCEPT ![rid].pc = "done"]
    /\ response' = NoResponse
    /\ UNCHANGED <<env, now, researchCache, client>>

(***************************************************************************)
(* Poll: GET /api/research/status/<researchId>.                            *)
(***************************************************************************)
\* researchCache.get(key)
CacheGet(cache, key) == cache[key]

PollResponse(cache, rid) ==
    LET research == CacheGet(cache, rid) IN
    IF research = NoRecord
    THEN [op |-> "poll", researchId |-> rid, code |-> 404,
          status |-> "processing", results |-> NoResults]
    ELSE [op |-> "poll", researchId |-> rid, code |-> 200,
          status |-> research.status, results |-> research.results]

Poll(rid) ==
    /\ response' = PollResponse(researchCache, rid)
    /\ UNCHANGED <<env, now, researchCache, run, client>>


(***************************************************************************)
(* The collaborators: what the calls can resolve to.                       *)
(***************************************************************************)
\* the words of a sub-query or of an angle, as a prompt quotes them
QueryWords(q) ==
    IF q.k = "str" THEN q.s
    ELSE IF Prop(q, K("query")).k = "str" THEN Prop(q, K("query")).s
    ELSE <<>>

\* faults: whether calls may end with a non-success status or a null body
Faults(faults) == IF faults THEN FailedResponses ELSE {}

InitialResponses(faults) ==
    {ChatResponse(200, "content", <<"findings">>, NoEmitted)} \cup Faults(faults)

\* answers of the planner model in the pipeline specification
SmallEmitted ==
    {Emitted("array", n, FALSE, "none") : n \in 0..MaxPlan}
    \cup {Emitted("prose", 0, FALSE, "none"), Emitted("nonarray", 0, FALSE, "none")}

\* answers of the planner model in the planner specification
AllEmitted ==
    {Emitted(sh, n, fe, w) : sh \in {"array", "queries", "cut"}, n \in 0..MaxElems,
                             fe \in BOOLEAN, w \in Wraps}
    \cup {Emitted(sh, 0, FALSE, w) :
            sh \in Shapes \ {"array", "queries", "cut"}, w \in Wraps}

PlanResponses(emitted, faults) ==
    {PlanResponseOf(e) : e \in emitted} \cup Faults(faults)

SearchOk(organic) == SearchResponse(200, "results", organic)
DiveOk(angle) == ChatResponse(200, "content", <<"dive">> \o QueryWords(angle), NoEmitted)

\* first fan-out: search-<i> (blogs) or research-angle-<i> (angles)
SearchResponses(impl, item, faults) ==
    IF impl = "blogs"
    THEN {SearchOk(<<"hit">>)}
         \cup (IF faults
               THEN {SearchOk(<<>>), SearchResponse(500, "error", <<>>),
                     SearchResponse(200, "null", <<>>)}
               ELSE {})
    ELSE {DiveOk(item)} \cup Faults(faults)

\* second fan-out: the text the model writes is about the prompt it got
WriteOk(request) ==
    ChatResponse(200, "content",
                 <<"post">> \o QueryWords(request.query) \o request.snippets,
                 NoEmitted)
WriteResponses(request, faults) == {WriteOk(request)} \cup Faults(faults)

(***************************************************************************)
(* Specification of the pipeline: one job, any order of the sibling        *)
(* steps, any outcome of a call, replayed steps and deliveries, polls for  *)
(* every identifier.                                                       *)
(***************************************************************************)
Times == 0..MaxClock

\* the sibling steps a fan-out lets resolve next: any pending one, or, under
\* an in-order schedule, the pending one of the lowest index
Resolvable(list, ordered) ==
    {i \in DOMAIN list :
        /\ IsPending(list[i])
        /\ ordered => \A j \in DOMAIN list : j < i => ~IsPending(list[j])}

Pipeline(emitted, faults, ordered) ==
    \/ \E rid \in RIDs, res \in InitialResponses(faults) : InitialResolve(rid, res)
    \/ \E rid \in RIDs, res \in PlanResponses(emitted, faults) : PlanResolve(rid, res)
    \/ \E rid \in RIDs : \E i \in Resolvable(run[rid].searchResults, ordered) :
         \E res \in SearchResponses(env.impl, run[rid].searchQueries[i], faults) :
            SearchResolve(rid, i, res)
    \/ \E rid \in RIDs : SearchJoin(rid)
    \/ \E rid \in RIDs : \E i \in Resolvable(run[rid].blogPosts, ordered) :
         \E res \in WriteResponses(run[rid].writeRequests[i], faults) :
            WriteResolve(rid, i, res)
    \/ \E rid \in RIDs : WriteJoin(rid)
    \/ \E rid \in RIDs, t \in Times : ConsolidateRun(rid, t)
    \/ \E rid \in RIDs : ConsolidateAck(rid)
    \/ \E rid \in RIDs, t \in Times : WebhookSend(rid, t)
    \/ \E rid \in RIDs : RunFinish(rid)

Next ==
    \/ \E q \in Queries, u \in UserIds : Enqueue(1, q, u)
    \/ Pipeline(SmallEmitted, TRUE, FALSE)
    \/ \E payload \in InFlight \cup {Malformed}, t \in Times : WebhookPOST(payload, t)
    \/ \E rid \in RIDs : Poll(rid)

Spec == Init /\ [][Next]_vars

(***************************************************************************)
(* Specification of the webhook receiver: the same system, and requests    *)
(* of senders that do not hold the server's secret.                        *)
(***************************************************************************)
HookEmitted == {Emitted("array", 1, FALSE, "none")}

NextHook ==
    \/ \E q \in Queries, u \in UserIds : Enqueue(1, q, u)
    \/ Pipeline(HookEmitted, FALSE, FALSE)
    \/ \E payload \in InFlight \cup {Malformed}, t \in Times : WebhookPOST(payload, t)
    \/ \E rid \in RIDs : Poll(rid)
    \/ \E payload \in ExternalPayloads, t \in Times : WebhookPOST(payload, t)

SpecHook == Init /\ [][NextHook]_vars

(***************************************************************************)
(* Specification of the planner: one job whose planner model may answer    *)
(* with any of the shapes, lengths and fences of AllEmitted; every call    *)
(* succeeds and the sibling steps resolve in index order.                  *)
(***************************************************************************)
NextPlan ==
    \/ \E q \in Queries, u \in UserIds : Enqueue(1, q, u)
    \/ Pipeline(AllEmitted, FALSE, TRUE)
    \/ \E payload \in InFlight, t \in Times : WebhookPOST(payload, t)

SpecPlan == Init /\ [][NextPlan]_vars

(***************************************************************************)
(* Specifications of the enqueue endpoint: requests reach the two versions *)
(* of the handler, with every kind of body (SpecBodies) or from every kind *)
(* of caller (SpecCallers); the runs they start stay at their first step.  *)
(***************************************************************************)
ApiKeys == {UNDEF, "k3y"}
Host == <<"app.test">>
Hosts == {Host, Absent}
\* no origin header, the site's own origin, an origin whose name starts
\* with the site's host, another origin
Origins == {Absent, <<"https://">> \o Host,
            <<"https://">> \o Host \o <<".evil.test">>, <<"https://", "evil.test">>}
ApiKeyHeaders == {NoHeader, "k3y", "wrong"}

\* a JSON body with the fields that are given
Body(query, userId) ==
    JObj([n \in {K("query") : x \in {query} \ {JUndef}}
                \cup {K("userId") : x \in {userId} \ {JUndef}} |->
             IF n = K("query") THEN query ELSE userId])
BodyQueries ==
    {JUndef, JNull, JNum(7), JStr(<<>>), JStr(<<" ", NL>>),
     JStr(<<"batteries">>), JStr(<<" ", "solid", "state">>)}
BodyUserIds == {JUndef, JStr(<<"u1">>)}
Bodies ==
    {Malformed, JNull, JArr(<<>>)}
    \cup {Body(q, JUndef) : q \in BodyQueries}
    \cup {Body(JStr(<<"batteries">>), u) : u \in BodyUserIds}
\* the headers of a caller
Callers == [apiKey : ApiKeyHeaders, origin : Origins, host : Hosts]
Request(caller, body) ==
    [apiKey |-> caller.apiKey, origin |-> caller.origin, host |-> caller.host,
     body |-> body]
\* every caller, with a good query, with and without userId, and with a
\* blank query
CallerRequests ==
    {Request(c, b) : c \in Callers,
                     b \in {Body(JStr(<<"batteries">>), JUndef),
                            Body(JStr(<<"batteries">>), JStr(<<"u1">>)),
                            Body(JStr(<<" ", NL>>), JUndef)}}
\* every body, from a page of the site, from a caller that sends the key
\* and from a caller that sends neither
BodyRequests ==
    {Request(c, b) :
        c \in {[apiKey |-> NoHeader, origin |-> <<"https://">> \o Host, host |-> Host],
               [apiKey |-> "k3y", origin |-> Absent, host |-> Host],
               [apiKey |-> NoHeader, origin |-> Absent, host |-> Host]},
        b \in Bodies}

InitJobs ==
    /\ env \in [impl : {"blogs", "angles"}, WEBHOOK_SECRET : Secrets,
                 COZY_API_KEY : ApiKeys]
    /\ now = 0
    /\ researchCache = [r \in RIDs |-> NoRecord]
    /\ run = [r \in RIDs |-> IdleRun]
    /\ response = NoResponse
    /\ client = IdleClient

NextEnqueue(requests) ==
    \/ \E req \in requests, delivered \in BOOLEAN : EnqueuePOST(req, delivered)
    \/ \E req \in requests, delivered \in BOOLEAN : EnqueueEarlierPOST(req, delivered)

NextBodies == NextEnqueue(BodyRequests)
SpecBodies == InitJobs /\ [][NextBodies]_vars

NextCallers == NextEnqueue(CallerRequests)
SpecCallers == InitJobs /\ [][NextCallers]_vars

(***************************************************************************)
(* Specification of concurrent jobs: callers that pass the security check  *)
(* enqueue jobs, whose runs interleave; every call of a run succeeds.      *)
(***************************************************************************)
JobRequests ==
    {[apiKey |-> NoHeader, origin |-> <<"https://">> \o Host, host |-> Host,
      body |-> Body(JStr(<<"batteries">>), JUndef)]}

NextJobs ==
    \/ \E req \in JobRequests : EnqueuePOST(req, TRUE)
    \/ Pipeline(HookEmitted, FALSE, TRUE)
    \/ \E payload \in InFlight, t \in Times : WebhookPOST(payload, t)

SpecJobs == InitJobs /\ [][NextJobs]_vars

(***************************************************************************)
(* Specification of the sanitizer: the deployment sets                     *)
(* OPENROUTER_API_KEY to any text of up to MaxKeyLen characters, or not at *)
(* all, and the handler of an enqueued job sanitizes it for its first      *)
(* call.                                                                   *)
(***************************************************************************)
MaxKeyLen == 3
Chars == {"a", " "} \cup Controls \cup SmartQuotes \cup OtherNonAscii
RECURSIVE Texts(_)
Texts(n) ==
    IF n = 0 THEN {<<>>}
    ELSE LET shorter == Texts(n - 1) IN
         shorter \cup {Append(w, c) : w \in shorter, c \in Chars}
KeyValues == {Unset} \cup Texts(MaxKeyLen)

InitSanitize ==
    /\ env \in [impl : {"blogs", "angles"}, WEBHOOK_SECRET : {UNDEF},
                 OPENROUTER_API_KEY : KeyValues]
    /\ now = 0
    /\ researchCache = [r \in RIDs |-> NoRecord]
    /\ run = [r \in RIDs |-> IdleRun]
    /\ response = NoResponse
    /\ client = IdleClient

NextSanitize ==
    \/ \E q \in Queries, u \in UserIds : Enqueue(1, q, u)
    \/ \E rid \in RIDs : FirstCall(rid)

SpecSanitize == InitSanitize /\ [][NextSanitize]_vars

(***************************************************************************)
(* Properties.                                                             *)
(***************************************************************************)
\* the webhook request of the run of rid has been processed by the receiver
Notified(rid) == run[rid].pc \in {"notifying", "done"} /\ run[rid].notified

\* C1: after the consolidation step has written the completed record and
\* the webhook receiver has processed the notification of the same run, the
\* stored record has the status and the results the consolidation wrote.
C1_TwoWritePathsAgree ==
    \A rid \in RIDs :
        Notified(rid) =>
            /\ researchCache[rid] # NoRecord
            /\ researchCache[rid].status = "completed"
            /\ researchCache[rid].results = run[rid].finalContent

\* C2: every poll response carries the status processing or completed.
C2_PollStatus ==
    response.op = "poll" => response.status \in {"processing", "completed"}

\* C3: once the consolidation step has stored the record of a researchId,
\* every poll for it returns status completed and results whose query is the
\* enqueued query and whose blogs has at most 10 entries.
C3_ResultsStable ==
    (response.op = "poll" /\ run[response.researchId].ran) =>
        /\ response.code = 200
        /\ response.status = "completed"
        /\ response.results # NoResults
        /\ response.results.query = run[response.researchId].query
        /\ response.results.shape = "blogs" => Len(response.results.blogs) <= 10

\* C4: in every run of the blogs shape that reaches consolidation, blogs has
\* the length of searchQueries, blogs[i].query is searchQueries[i], and
\* blogs[i].content is the sentinel or the text written for the prompt of
\* index i, whatever order the sibling steps resolved in.
C4_IndexAlignment ==
    \A rid \in RIDs :
        (env.impl = "blogs" /\ run[rid].ran) =>
            LET blogs == run[rid].finalContent.blogs
                sq == run[rid].searchQueries
                sr == run[rid].searchResults
            IN /\ Len(blogs) = Len(sq)
               /\ researchCache[rid] # NoRecord
               /\ \A i \in 1..Len(sq) :
                    /\ blogs[i].query = sq[i]
                    /\ blogs[i].content \in
                         {Sentinel,
                          <<"post">> \o QueryWords(sq[i]) \o OrganicOf(sr[i])}

\* a run consolidated two sections whose steps resolved out of index order
C4_Witness ==
    /\ env.impl = "blogs"
    /\ run[1].ran
    /\ run[1].reordered
    /\ Len(run[1].finalContent.blogs) = 2
    /\ run[1].finalContent.blogs[1].content = Sentinel
    /\ run[1].finalContent.blogs[2].content # Sentinel

\* C5: a webhook request whose secret is not the server-held secret is
\* answered 401 and leaves the store as it was, for every researchId.
C5_Unauthorized ==
    [][ \A payload \in InFlight \cup ExternalPayloads, t \in Times :
          (WebhookPOST(payload, t) /\ payload.secret # env.WEBHOOK_SECRET) =>
              /\ response'.op = "webhook"
              /\ response'.code = 401
              /\ researchCache' = researchCache ]_vars

\* a request was refused while the store held a completed record
C5_Witness ==
    /\ response.op = "webhook"
    /\ response.code = 401
    /\ researchCache[1] # NoRecord
    /\ researchCache[1].status = "completed"

\* a call of the run has ended with a non-success status
NonSuccess(res) == ~IsPending(res) /\ res.status # 200
CallFailed(rid) ==
    \/ NonSuccess(run[rid].planResult)
    \/ \E i \in DOMAIN run[rid].searchResults : NonSuccess(run[rid].searchResults[i])
    \/ \E i \in DOMAIN run[rid].blogPosts : NonSuccess(run[rid].blogPosts[i])

\* C6: when a planner, search or generation call has ended with a
\* non-success status, the consolidation step never runs and no record of
\* the researchId is in the store.
C6_FailureIsFatal ==
    \A rid \in RIDs :
        CallFailed(rid) => ~run[rid].ran /\ researchCache[rid] = NoRecord

\* a step that ended in failure: a non-success status or no body
StepFailed(res) == ~IsPending(res) /\ (res.status # 200 \/ res.kind = "null")

\* the sibling steps of the stage the run of rid is in
Siblings(r) ==
    CASE r.pc = "search" -> r.searchResults
      [] r.pc = "write" -> r.blogPosts
      [] OTHER -> <<>>

\* a step of the run of rid: a stage is left only when none of its steps is
\* pending, and the failure of one step leaves the run in its stage and
\* every sibling as it was
C7_Step ==
    \A rid \in RIDs :
        LET before == Siblings(run[rid])
            after == Siblings(run'[rid])
        IN /\ (run[rid].pc \in {"search", "write"} /\ run'[rid].pc # run[rid].pc) =>
                  \A i \in DOMAIN before : before[i].kind # "pending"
           /\ (run[rid].pc \in {"search", "write"} /\ run'[rid].pc = run[rid].pc) =>
                  \A i \in DOMAIN before :
                      (before[i].kind = "pending" /\ StepFailed(after[i])) =>
                          \A j \in DOMAIN before \ {i} : after[j] = before[j]

\* a pending step can resolve whatever has become of its siblings
C7_NotBlocked ==
    \A rid \in RIDs :
        /\ run[rid].pc = "search" =>
              \A i \in DOMAIN run[rid].searchResults :
                  IsPending(run[rid].searchResults[i]) =>
                      ENABLED (\E res \in SearchResponses(env.impl, run[rid].searchQueries[i], FALSE) :
                                  SearchResolve(rid, i, res))
        /\ run[rid].pc = "write" =>
              \A i \in DOMAIN run[rid].blogPosts :
                  IsPending(run[rid].blogPosts[i]) =>
                      ENABLED (\E res \in WriteResponses(run[rid].writeRequests[i], FALSE) :
                                  WriteResolve(rid, i, res))

\* C7: in the search stage and in the content-generation stage, the failure
\* of the step of index i neither cancels the steps of the other indices nor
\* keeps them from resolving, and the stage is left only when every one of
\* its steps has resolved.
C7_SiblingIndependence == [][C7_Step]_vars /\ []C7_NotBlocked

\* the second search failed before the first one resolved, and the run went
\* on to the content-generation stage with both results
C7_Witness ==
    /\ run[1].pc = "write"
    /\ run[1].reordered
    /\ Len(run[1].searchResults) = 2
    /\ run[1].searchResults[2].status = 500
    /\ run[1].searchResults[1].status = 200
    /\ \A i \in DOMAIN run[1].blogPosts : IsPending(run[1].blogPosts[i])

\* C8: whatever the planner answers, the plan handed to the search fan-out
\* has at most 10 entries, and a run issues at most 10 steps in the search
\* fan-out and at most 10 in the content-generation fan-out.
C8_PlanCap ==
    \A rid \in RIDs :
        /\ Len(run[rid].searchQueries) <= 10
        /\ Len(run[rid].searchResults) <= 10
        /\ Len(run[rid].writeRequests) <= 10
        /\ Len(run[rid].blogPosts) <= 10

\* the planner answered with more than 10 sub-queries and the run issued
\* 10 steps in each fan-out
C8_Witness ==
    /\ ~IsPending(run[1].planResult)
    /\ run[1].planResult.emitted.shape \in {"array", "queries"}
    /\ run[1].planResult.emitted.n > 10
    /\ run[1].pc = "consolidate"
    /\ Len(run[1].searchResults) = 10
    /\ Len(run[1].blogPosts) = 10

\* the planner's answer of the run of rid is no JSON under any reading of
\* its fence: prose, or a list that stops before its end
Unparseable(rid) ==
    /\ ~IsPending(run[rid].planResult)
    /\ run[rid].planResult.emitted.shape \in {"prose", "cut"}

\* the planner's answer of the run of rid is the empty text
EmptyAnswer(rid) ==
    /\ ~IsPending(run[rid].planResult)
    /\ run[rid].planResult.emitted.shape = "empty"

\* the plan is the single element { query: the user's query, type: "what" }
SingleFallback(rid) ==
    /\ run[rid].pc # "failed"
    /\ Len(run[rid].searchQueries) = 1
    /\ Prop(run[rid].searchQueries[1], K("query")) = JStr(run[rid].query)
    /\ Prop(run[rid].searchQueries[1], K("type")) = JStr(<<"what">>)

C10_ParsingPolicy ==
    \A rid \in RIDs :
        (/\ env.impl = "blogs"
         /\ ~IsPending(run[rid].planResult)
         /\ run[rid].planResult.emitted.shape \in {"array", "queries"}
         /\ run[rid].planResult.emitted.wrap \in {"none", "json", "jsonflat", "plain"}) =>
            LET e == run[rid].planResult.emitted IN
            /\ run[rid].pc # "failed"
            /\ run[rid].searchQueries =
                  SubSeq(EmittedList(e.n, e.fenced), 1, Min(10, e.n))

\* the response of a generation call carries no content: the body is
\* missing, or it has no choices[0].message.content
NoContent(res) == ~IsPending(res) /\ res.kind # "content"

\* C11: in the blogs shape, when every write-blog step has resolved and some
\* of them carry no content, the run does not fail, and once consolidation
\* has run the content of each such section is exactly the sentinel
\* "Failed to generate content." and a completed record has been stored.
C11_Degradation ==
    \A rid \in RIDs :
        (/\ env.impl = "blogs"
         /\ run[rid].blogPosts # <<>>
         /\ \A i \in DOMAIN run[rid].blogPosts : ~IsPending(run[rid].blogPosts[i])
         /\ \E i \in DOMAIN run[rid].blogPosts : NoContent(run[rid].blogPosts[i])) =>
            /\ run[rid].pc # "failed"
            /\ run[rid].ran =>
                  /\ researchCache[rid] # NoRecord
                  /\ \A i \in DOMAIN run[rid].blogPosts :
                        NoContent(run[rid].blogPosts[i]) =>
                            run[rid].finalContent.blogs[i].content = Sentinel

\* the search of index i of the run of rid found nothing
NoHits(rid, i) ==
    /\ run[rid].searchResults[i].kind = "results"
    /\ run[rid].searchResults[i].organic = <<>>

\* C12: in the blogs shape, once the search stage is left every index has
\* its write-blog request, the request of an index whose search found
\* nothing has the empty snippet text, a run fails in the search stage only
\* for a missing body, and the blogs of a consolidated run are as many as
\* the plan's entries.
C12_EmptySearch ==
    \A rid \in RIDs :
        env.impl = "blogs" =>
            /\ run[rid].pc \in {"write", "consolidate", "webhook", "notifying", "done"} =>
                  /\ Len(run[rid].writeRequests) = Len(run[rid].searchQueries)
                  /\ Len(run[rid].blogPosts) = Len(run[rid].searchQueries)
                  /\ \A i \in DOMAIN run[rid].searchResults :
                        NoHits(rid, i) =>
                            /\ run[rid].writeRequests[i].query = run[rid].searchQueries[i]
                            /\ run[rid].writeRequests[i].snippets = <<>>
            /\ (/\ run[rid].pc = "failed"
                /\ run[rid].searchResults # <<>>
                /\ run[rid].blogPosts = <<>>) =>
                  \E i \in DOMAIN run[rid].searchResults :
                      run[rid].searchResults[i].kind \in {"pending", "null"}
            /\ run[rid].ran =>
                  Len(run[rid].finalContent.blogs) = Len(run[rid].searchQueries)

\* a run of two sub-queries whose first search found nothing has
\* consolidated two sections, the first one generated from the empty text
C12_Witness ==
    /\ env.impl = "blogs"
    /\ run[1].ran
    /\ Len(run[1].searchQueries) = 2
    /\ NoHits(1, 1)
    /\ run[1].writeRequests[1].snippets = <<>>
    /\ Len(run[1].finalContent.blogs) = 2
    /\ run[1].finalContent.blogs[1].content # Sentinel

\* C13: a poll for a researchId whose pipeline has not stored a completed
\* record (an unknown identifier included) is answered 404 with status
\* processing and without results.
C13_PollBeforeComplete ==
    (response.op = "poll" /\ ~run[response.researchId].ran) =>
        /\ response.code = 404
        /\ response.status = "processing"
        /\ response.results = NoResults

\* the body of the request is JSON other than null, and its query is
\* missing, null, empty or made of whitespace only
QueryIsBlank(req) ==
    /\ req.body # Malformed
    /\ req.body.k # "null"
    /\ LET q == Prop(req.body, K("query")) IN
       \/ q.k \in {"undefined", "null"}
       \/ q.k = "str" /\ \A i \in DOMAIN q.s : q.s[i] \in {" ", NL, "\t"}

\* C14: every request with a blank query, to either version of the enqueue
\* endpoint, is answered with a 4xx status and an error field, and starts
\* no run.
C14_BlankQueryRejected ==
    [][ \A req \in BodyRequests, delivered \in BOOLEAN :
          (/\ QueryIsBlank(req)
           /\ EnqueuePOST(req, delivered) \/ EnqueueEarlierPOST(req, delivered)) =>
              /\ response'.op = "enqueue"
              /\ response'.code \in 400..499
              /\ response'.error # UNDEF
              /\ response'.status = UNDEF
              /\ run' = run ]_vars

\* a blank query was refused with 400 after one job had been accepted, and
\* the second identifier is still unused
C14_Witness ==
    /\ response.op = "enqueue"
    /\ response.code = 400
    /\ run[1].pc # "idle"
    /\ run[2].pc = "idle"

\* the origin of the request is the site's own origin
SameOrigin(req) ==
    /\ req.host # Absent
    /\ req.origin \in {<<"https://">> \o req.host, <<"http://">> \o req.host}

\* C15: when an API key is configured, a request from another origin (or
\* without origin) whose x-api-key header is missing or differs from the key
\* is answered 401 and starts no run, whatever its body.
C15_ApiKeyCheck ==
    [][ \A req \in CallerRequests, delivered \in BOOLEAN :
          (/\ env.COZY_API_KEY # UNDEF
           /\ ~SameOrigin(req)
           /\ req.apiKey # env.COZY_API_KEY
           /\ EnqueuePOST(req, delivered)) =>
              /\ response'.code = 401
              /\ run' = run ]_vars

\* a step that answers an enqueue request with success: the response is
\* {researchId, status: "processing"} for an identifier unused so far, the
\* run of that identifier stands at its first step with nothing resolved,
\* and no other run and no record has changed
C16_Step ==
    (response'.op = "enqueue" /\ response'.code = 200) =>
        /\ response'.status = "processing"
        /\ response'.researchId \in RIDs
        /\ LET rid == response'.researchId IN
           /\ run[rid].pc = "idle"
           /\ run'[rid].pc = FirstStage(env.impl)
           /\ IsPending(run'[rid].planResult)
           /\ run'[rid].searchResults = <<>>
           /\ run'[rid].blogPosts = <<>>
           /\ ~run'[rid].ran
           /\ \A r \in RIDs \ {rid} : run'[r] = run[r]
        /\ researchCache' = researchCache

\* while an identifier is left, a request that passes the checks can be
\* answered with success, whatever step the other runs are at
C16_NotDelayed ==
    (\E rid \in RIDs : run[rid].pc = "idle") =>
        ENABLED (\E req \in JobRequests :
                    EnqueuePOST(req, TRUE) /\ response'.code = 200)

\* C16: a successful enqueue answers {researchId, status: "processing"}
\* right after the hand-off, before any step of the new run, and it neither
\* waits for nor depends on the steps of any run.
C16_Asynchronous == [][C16_Step]_vars /\ []C16_NotDelayed

\* a second job was accepted while the first run was in its
\* content-generation stage
C16_Witness ==
    /\ response.op = "enqueue"
    /\ response.code = 200
    /\ response.researchId = 2
    /\ run[1].pc = "write"
    /\ run[2].pc = FirstStage(env.impl)

\* the step re-executes the consolidation of rid, or delivers the
\* notification of rid again, after the first execution stored its record
Replayed(rid) ==
    \/ /\ run[rid].pc = "consolidate"
       /\ run[rid].ran
       /\ \E t \in Times : ConsolidateRun(rid, t)
    \/ /\ run[rid].notified
       /\ \E t \in Times : WebhookPOST(run[rid].webhookBody, t)
       /\ response'.code = 200

\* C17 as stated: a replayed store writer leaves the stored record equal to
\* the record of the first execution.
C17_AsStated ==
    [][ \A rid \in RIDs : Replayed(rid) => researchCache'[rid] = researchCache[rid] ]_vars

\* results without the time stamps of the execution that built them
Untimed(results) ==
    CASE results.shape = "blogs" -> [results EXCEPT !.completedAt = NoTime]
      [] results.shape = "angles" ->
            [results EXCEPT !.completedAt = NoTime, !.processingTimeMs = NoTime]
      [] OTHER -> results

\* two records that differ at most in completedAt, cachedAt and the time
\* stamps inside results
SameButTimes(a, b) ==
    /\ a # NoRecord
    /\ b # NoRecord
    /\ a.researchId = b.researchId
    /\ a.userId = b.userId
    /\ a.status = b.status
    /\ Untimed(a.results) = Untimed(b.results)

\* a stored record with status completed has the full results of its run
C17_NoHalfBuilt ==
    \A rid \in RIDs :
        (researchCache[rid] # NoRecord /\ researchCache[rid].status = "completed") =>
            /\ researchCache[rid].results # NoResults
            /\ researchCache[rid].results = run[rid].finalContent

\* C17: a replayed store writer leaves the stored record equal to the
\* record of the first execution in researchId, userId, status and results,
\* apart from the time stamps (completedAt, cachedAt, processingTimeMs),
\* which are those of the latest execution; and no stored record has
\* status completed without the full results.
C17_ReplaySafe ==
    /\ [][ \A rid \in RIDs :
             Replayed(rid) => SameButTimes(researchCache'[rid], researchCache[rid]) ]_vars
    /\ []C17_NoHalfBuilt

\* the notification of a finished run was delivered again, at a later time
\* than its first delivery, and the receiver stored it
C17_Witness ==
    /\ run[1].pc = "done"
    /\ response.op = "webhook"
    /\ response.code = 200
    /\ researchCache[1] # NoRecord
    /\ researchCache[1].cachedAt = now
    /\ now > 0

\* C18: the webhook request a run sends after consolidation carries the
\* fields the receiver reads: the run's researchId and userId, status
\* completed, the consolidated results, completedAt, and the server's
\* secret.
C18_NotificationBody ==
    \A rid \in RIDs :
        run[rid].webhookBody # NoRecord =>
            /\ run[rid].webhookBody.researchId = rid
            /\ run[rid].webhookBody.userId = run[rid].userId
            /\ run[rid].webhookBody.status = "completed"
            /\ run[rid].webhookBody.results = run[rid].finalContent
            /\ run[rid].webhookBody.completedAt # NoTime
            /\ run[rid].webhookBody.secret = env.WEBHOOK_SECRET

\* the step is a store write of the run of rid: its consolidation step, or
\* the receiver storing the notification the run has sent
WritesFor(rid) ==
    \/ \E t \in Times : ConsolidateRun(rid, t)
    \/ /\ run[rid].webhookBody # NoRecord
       /\ \E t \in Times : WebhookPOST(run[rid].webhookBody, t)

\* C19: a store write of the consolidation step or of the webhook receiver
\* for one researchId leaves the record, or the absence of a record, of
\* every other researchId as it was, however the runs interleave.
C19_StoreIsolation ==
    [][ \A a \in RIDs :
          WritesFor(a) =>
              \A b \in RIDs \ {a} : researchCache'[b] = researchCache[b] ]_vars

\* the second run has just stored its record while the first run, whose
\* record is in the store, is still being notified
C19_Witness ==
    /\ run[1].pc = "notifying"
    /\ run[2].pc = "consolidate"
    /\ run[2].ran
    /\ researchCache[1] # NoRecord
    /\ researchCache[2] # NoRecord
    /\ researchCache[1].researchId = 1
    /\ researchCache[2].researchId = 2

\* the sanitized text inside the Authorization header of a call
Sanitized(call) == SubSeq(call.authorization, 3, Len(call.authorization))

\* C20: the text sanitize returns has no smart quote, no character outside
\* the printable ASCII range (no control character such as CR or LF), and
\* no leading or trailing whitespace; for an absent input it is empty.
C20_Sanitized ==
    response.op = "call" =>
        LET out == Sanitized(response) IN
        /\ \A i \in DOMAIN out :
              /\ out[i] \notin SmartQuotes
              /\ out[i] \notin OtherNonAscii
              /\ out[i] \notin Controls
        /\ out # <<>> =>
              /\ out[1] \notin {" ", "\t", NL, "\r", "U+00A0"}
              /\ out[Len(out)] \notin {" ", "\t", NL, "\r", "U+00A0"}
        /\ env.OPENROUTER_API_KEY = Unset => out = <<>>

(***************************************************************************)
(* The outbound calls of the pipeline: what each step puts into its        *)
(* headers, parameters and URL from the environment.                       *)
(***************************************************************************)
\* a template literal renders an undefined value as the word undefined
Rendered(str) == IF str = Unset THEN <<"undefined">> ELSE str

Localhost == <<"http://localhost:5173">>

\* const siteUrl = sanitize(env.PUBLIC_SITE_URL) || "http://localhost:5173"
SiteUrl(e) ==
    IF Sanitize(e.PUBLIC_SITE_URL) = <<>> THEN Localhost
    ELSE Sanitize(e.PUBLIC_SITE_URL)

\* env.PUBLIC_SITE_URL || "http://localhost:5173"
RawSiteUrl(e) ==
    IF e.PUBLIC_SITE_URL = Unset \/ e.PUBLIC_SITE_URL = <<>> THEN Localhost
    ELSE e.PUBLIC_SITE_URL

\* the parts of a call that come from the environment: the Authorization
\* and HTTP-Referer headers, the api_key parameter and the origin of the
\* URL; Absent where the call has no such part
Outbound(step, authorization, referer, apiKey, origin) ==
    [op |-> "call", code |-> 0, step |-> step,
     authorization |-> authorization, referer |-> referer,
     apiKey |-> apiKey, origin |-> origin]

\* blogs shape: plan-research, search-<i>, write-blog-<i>, webhook
BlogsCall(step, e) ==
    LET openRouterKey == Sanitize(e.OPENROUTER_API_KEY)
        searchApiKey == Sanitize(e.SEARCHAPI_API_KEY)
        siteUrl == SiteUrl(e)
    IN CASE step = "plan" ->
              Outbound(step, <<"Bearer", " ">> \o openRouterKey, siteUrl, Absent, Absent)
         [] step = "search" ->
              Outbound(step, Absent, Absent, searchApiKey, Absent)
         [] step = "write" ->
              Outbound(step, <<"Bearer", " ">> \o openRouterKey, siteUrl, Absent, Absent)
         [] step = "notifying" ->
              Outbound(step, Absent, Absent, Absent, siteUrl)

\* angles shape: openrouter-initial, generate-search-angles,
\* research-angle-<i>, minimax-analysis-<i>, notify-webhook
AnglesCall(step, e) ==
    LET apiKey == Sanitize(e.OPENROUTER_API_KEY)
        siteUrl == SiteUrl(e)
    IN CASE step \in {"initial", "plan"} ->
              Outbound(step, <<"Bearer", " ">> \o apiKey, siteUrl, Absent, Absent)
         [] step \in {"search", "write"} ->
              Outbound(step, <<"Bearer", " ">> \o Rendered(e.OPENROUTER_API_KEY),
                       RawSiteUrl(e), Absent, Absent)
         [] step = "notifying" ->
              Outbound(step, Absent, Absent, Absent, RawSiteUrl(e))

\* the positions of a run at which a call is outstanding
CallStages == {"initial", "plan", "search", "write", "notifying"}

\* the executor sends, or sends again, the call the run of rid waits on
IssueCall(rid) ==
    /\ run[rid].pc \in CallStages
    /\ response' = IF env.impl = "blogs" THEN BlogsCall(run[rid].pc, env)
                   ELSE AnglesCall(run[rid].pc, env)
    /\ UNCHANGED <<env, now, researchCache, run, client>>

(***************************************************************************)
(* Specification of the outbound calls: the deployment sets each of        *)
(* OPENROUTER_API_KEY, SEARCHAPI_API_KEY and PUBLIC_SITE_URL to a pasted   *)
(* text, or not at all, and a job runs through every step.                 *)
(***************************************************************************)
\* a clean value, one pasted with smart quotes around it, one pasted with
\* whitespace around it
Pasted ==
    {Unset, <<"v">>, <<"U+201C", "v", "U+201D">>, <<" ", "v", NL>>}

InitHeaders ==
    /\ env \in [impl : {"blogs", "angles"}, WEBHOOK_SECRET : {"s3cret"},
                 OPENROUTER_API_KEY : Pasted, SEARCHAPI_API_KEY : Pasted,
                 PUBLIC_SITE_URL : Pasted]
    /\ now = 0
    /\ researchCache = [r \in RIDs |-> NoRecord]
    /\ run = [r \in RIDs |-> IdleRun]
    /\ response = NoResponse
    /\ client = IdleClient

NextHeaders ==
    \/ \E q \in Queries, u \in UserIds : Enqueue(1, q, u)
    \/ Pipeline(HookEmitted, FALSE, TRUE)
    \/ \E payload \in InFlight, t \in Times : WebhookPOST(payload, t)
    \/ \E rid \in RIDs : IssueCall(rid)

SpecHeaders == InitHeaders /\ [][NextHeaders]_vars

\* C21: in every outbound step of the pipeline (planner, search, per-index
\* generation, notification), each credential or site-URL value placed in
\* a header, a parameter or the URL of the call has passed through
\* sanitize: no step sends a raw environment value.
C21_HeaderHygiene ==
    response.op = "call" =>
        /\ response.authorization # Absent =>
              response.authorization =
                  <<"Bearer", " ">> \o Sanitize(env.OPENROUTER_API_KEY)
        /\ response.apiKey # Absent =>
              response.apiKey = Sanitize(env.SEARCHAPI_API_KEY)
        /\ \A url \in {response.referer, response.origin} :
              url # Absent =>
                  url = IF Sanitize(env.PUBLIC_SITE_URL) = <<>> THEN Localhost
                        ELSE Sanitize(env.PUBLIC_SITE_URL)

\* the position of a stage in the handler
Rank(pc) ==
    CASE pc = "idle" -> 0
      [] pc = "initial" -> 1
      [] pc = "plan" -> 2
      [] pc = "search" -> 3
      [] pc = "write" -> 4
      [] pc = "consolidate" -> 5
      [] pc = "webhook" -> 6
      [] pc = "notifying" -> 7
      [] pc = "done" -> 8
      [] OTHER -> 9

\* a step of the run of rid keeps the order of the stages and enters a
\* stage only when every step of the stage before has resolved
C22_Step ==
    \A rid \in RIDs :
        LET r == run[rid]
            after == run'[rid]
        IN /\ Rank(after.pc) >= Rank(r.pc)
           /\ (after.pc = "search" /\ r.pc # "search") => r.pc = "plan"
           /\ (after.pc = "write" /\ r.pc # "write") =>
                 /\ r.pc = "search"
                 /\ Len(r.searchResults) = Len(r.searchQueries)
                 /\ \A j \in DOMAIN r.searchResults : r.searchResults[j].kind # "pending"
           /\ after.blogPosts # r.blogPosts => after.pc \in {"write", "failed"}
           /\ ((after.pc = "consolidate" /\ r.pc # "consolidate") \/ (after.ran /\ ~r.ran)) =>
                 /\ r.pc \in {"write", "consolidate"}
                 /\ Len(r.blogPosts) = Len(r.searchResults)
                 /\ \A i \in DOMAIN r.blogPosts : r.blogPosts[i].kind # "pending"
           /\ (after.pc = "webhook" /\ r.pc # "webhook") =>
                 r.pc = "consolidate" /\ r.ran
           /\ (after.pc = "notifying" /\ r.pc # "notifying") =>
                 r.pc = "webhook" /\ r.ran

\* C22: in every run the steps occur in the order planner, search fan-out,
\* content-generation fan-out, consolidation, notification; no step of the
\* content-generation fan-out is issued before every search step has
\* resolved, the consolidation does not start before every step of the
\* content-generation fan-out has resolved, and the notification is not
\* issued before the consolidation has returned.
C22_StageOrdering == [][C22_Step]_vars

\* the notification of a run is out whose two searches and two content
\* steps resolved out of index order
C22_Witness ==
    /\ run[1].pc = "notifying"
    /\ run[1].reordered
    /\ run[1].ran
    /\ Len(run[1].searchResults) = 2
    /\ Len(run[1].blogPosts) = 2
    /\ \A i \in 1..2 : ~IsPending(run[1].blogPosts[i])

\* the step that issues the notification of the run of rid
WebhookIssued(rid) == run[rid].pc = "webhook" /\ run'[rid].pc = "notifying"

\* when the notification is issued the store holds the completed record
\* with the results the consolidation returned
C23_Step ==
    \A rid \in RIDs :
        WebhookIssued(rid) =>
            /\ researchCache[rid] # NoRecord
            /\ researchCache[rid].researchId = rid
            /\ researchCache[rid].status = "completed"
            /\ researchCache[rid].results = run[rid].finalContent
            /\ researchCache'[rid] = researchCache[rid]

\* a poll for a job whose notification has been received finds a record
C23_Poll ==
    (response.op = "poll" /\ run[response.researchId].notified) =>
        response.code = 200 /\ response.code # 404 /\ response.status # "processing"

C24_PlannerNeverRaises ==
    [][\A rid \in RIDs :
          (run[rid].pc = "plan" /\ run'[rid].pc # "plan") =>
              /\ run'[rid].pc = "search"
              /\ Len(run'[rid].searchQueries) <= 10
              /\ Len(run'[rid].searchResults) = Len(run'[rid].searchQueries)]_vars

\* C25: a webhook request whose payload has no secret field is answered
\* 401 and leaves the store as it was in every server configuration,
\* the one where no WEBHOOK_SECRET is configured included.
C25_NoSecretRejected ==
    [][ \A payload \in ExternalPayloads \cup InFlight, t \in Times :
          (payload.secret = UNDEF /\ WebhookPOST(payload, t)) =>
              /\ response'.op = "webhook"
              /\ response'.code = 401
              /\ researchCache' = researchCache ]_vars

\* the host an Origin header names: the origin without its scheme
OriginHost(origin) == Tail(origin)

\* C26: the enqueue endpoint treats a request as internal, and so lets it
\* pass without the configured API key, only when its Origin header names
\* the same host as its Host header; a request with an Origin of another
\* host, or with no Host header, and without the key is never let through.
C26_InternalIsSameHost ==
    [][ \A req \in CallerRequests, delivered \in BOOLEAN :
          (/\ env.COZY_API_KEY # UNDEF
           /\ req.apiKey # env.COZY_API_KEY
           /\ EnqueuePOST(req, delivered)
           /\ response'.code # 401) =>
              /\ req.host # Absent
              /\ req.origin # Absent
              /\ OriginHost(req.origin) = req.host ]_vars

\* a request whose body the handler cannot process: no JSON, the JSON
\* null, or a query that is no text
Unprocessable(req) ==
    \/ req.body = Malformed
    \/ req.body.k = "null"
    \/ Prop(req.body, K("query")).k \in {"num", "arr", "obj", "bool"}

\* a request the handler tries to hand to the executor: its query is a
\* text that is not blank
HandedOff(req) ==
    /\ ~Unprocessable(req)
    /\ ~QueryIsBlank(req)
    /\ Prop(req.body, K("query")).k = "str"

\* C27: when publishing the job to the executor fails, or the request body
\* cannot be processed, either version of the enqueue endpoint answers 500
\* with an error field and without researchId, and no run is started for
\* the request.
C27_HandOffFailure ==
    [][ \A req \in BodyRequests, delivered \in BOOLEAN :
          (/\ Unprocessable(req) \/ (HandedOff(req) /\ ~delivered)
           /\ EnqueuePOST(req, delivered) \/ EnqueueEarlierPOST(req, delivered)
           /\ response'.code # 401) =>
              /\ response'.op = "enqueue"
              /\ response'.code = 500
              /\ response'.error # UNDEF
              /\ response'.researchId = 0
              /\ response'.status = UNDEF
              /\ run' = run ]_vars

\* a request was answered 500 after one job had been accepted: the run of
\* that job goes on and the second identifier is still unused
C27_Witness ==
    /\ response.op = "enqueue"
    /\ response.code = 500
    /\ response.error = "Failed to start research"
    /\ run[1].pc \in {"plan", "initial"}
    /\ \A r \in RIDs \ {1} : run[r].pc = "idle"

(***************************************************************************)
(* The page: startResearch, startPolling, the poll timer, checkResults,    *)
(* resetSearch and onMount.  The three versions of the page have the same  *)
(* script.  A handler runs up to its next await in one step; the template  *)
(* shows the form only while researchId is null, disables it while         *)
(* loading, shows the check and cancel buttons while researchId is set and *)
(* results is null, and the new-research button while results is set.      *)
(***************************************************************************)
\* the handles setInterval can return: one for each job the server takes
Timers == 1..MaxJobs

\* fetch("/api/research/run", { method: "POST", body: JSON.stringify({ query }) })
\* from a page of the site
PageRequest(query) ==
    Request([apiKey |-> NoHeader, origin |-> <<"https://">> \o Host, host |-> Host],
            Body(JStr(query), JUndef))

\* clearInterval(handle)
ClearInterval(timers, handle) == timers \ {handle}

\* a status request under way: the timer whose callback sent it (NoTimer
\* for checkResults) and the researchId in its URL
StatusRequest(timer, rid) == [timer |-> timer, rid |-> rid]

\* startResearch up to await fetch: if (!query.trim()) return
StartResearch(query) ==
    /\ client.researchId = NoId
    /\ ~client.loading
    /\ Trim(query) # <<>>
    /\ client' = [client EXCEPT !.query = query, !.loading = TRUE,
                                !.results = NoResults, !.posting = TRUE,
                                !.wasReset = FALSE]
    /\ response' = NoResponse
    /\ UNCHANGED <<env, now, researchCache, run>>

\* the enqueue endpoint serves the request of the page
PageEnqueue(delivered) ==
    /\ client.posting
    /\ EnqueueServe(PageRequest(client.query), delivered)
    /\ client' = [client EXCEPT !.posting = FALSE, !.reply = response']

\* if (pollInterval) clearInterval(pollInterval);
\* pollInterval = setInterval(...)
StartPolling(c) ==
    [c EXCEPT !.timers = ClearInterval(c.timers, c.pollInterval) \cup {c.created + 1},
              !.pollInterval = c.created + 1,
              !.created = c.created + 1]

\* startResearch after await fetch: researchId = data.researchId,
\* localStorage.setItem, startPolling(); a response that is not ok ends in
\* the catch
StartReply ==
    /\ client.reply # NoReply
    /\ client' =
          IF client.reply.code = 200
          THEN [StartPolling(client) EXCEPT
                   !.researchId = client.reply.researchId,
                   !.saved = client.reply.researchId,
                   !.loading = FALSE, !.reply = NoReply]
          ELSE [client EXCEPT !.loading = FALSE, !.reply = NoReply]
    /\ response' = NoResponse
    /\ UNCHANGED <<env, now, researchCache, run>>

\* the callback of an active interval up to await fetch:
\* if (!researchId) return
TimerTick(timer) ==
    /\ timer \in client.timers
    /\ client' = IF client.researchId = NoId THEN client
                 ELSE [client EXCEPT
                          !.polls = @ \cup {StatusRequest(timer, client.researchId)}]
    /\ response' = NoResponse
    /\ UNCHANGED <<env, now, researchCache, run>>

\* a callback that forgets its interval without clearing it
TimerReply_DropHandle(c, timer, res) ==
    IF res.code = 200 /\ res.status = "completed"
    THEN [c EXCEPT !.results = res.results,
                   !.pollInterval = NoTimer,
                   !.finished = @ \cup {timer}]
    ELSE c

\* the callback of the interval after await fetch: on response.ok with
\* data.status === "completed", results = data.results,
\* clearInterval(pollInterval), pollInterval = null
TimerReply(c, timer, res) ==
    IF res.code = 200 /\ res.status = "completed"
    THEN [c EXCEPT !.results = res.results,
                   !.timers = ClearInterval(c.timers, c.pollInterval),
                   !.pollInterval = NoTimer,
                   !.finished = @ \cup {timer}]
    ELSE c

\* checkResults after await fetch: a response that is not ok returns or
\* ends in the catch; data.status === "completed" sets results
CheckReply(c, res) ==
    IF res.code = 200 /\ res.status = "completed"
    THEN [c EXCEPT !.results = res.results, !.checking = FALSE]
    ELSE [c EXCEPT !.checking = FALSE]

\* a fetch that throws: the request never reached the server
NetworkError == [op |-> "poll", code |-> 0, status |-> UNDEF, results |-> NoResults]

\* the poll endpoint serves a status request of the page, or the fetch
\* throws, and the handler that sent it goes on
StatusReply(request, reached) ==
    /\ request \in client.polls
    /\ LET res == IF reached THEN PollResponse(researchCache, request.rid)
                  ELSE NetworkError
           c == [client EXCEPT !.polls = @ \ {request}]
       IN /\ response' = IF reached THEN res ELSE NoResponse
          /\ client' = IF request.timer = NoTimer THEN CheckReply(c, res)
                       ELSE TimerReply(c, request.timer, res)
    /\ UNCHANGED <<env, now, researchCache, run>>

\* checkResults up to await fetch: if (!researchId) return; checking = true
CheckResults ==
    /\ client.researchId # NoId
    /\ client.results = NoResults
    /\ ~client.checking
    /\ client' = [client EXCEPT
                     !.checking = TRUE,
                     !.polls = @ \cup {StatusRequest(NoTimer, client.researchId)}]
    /\ response' = NoResponse
    /\ UNCHANGED <<env, now, researchCache, run>>

\* resetSearch: researchId = null, results = null, query = "",
\* clearInterval(pollInterval), localStorage.removeItem
ResetSearch ==
    /\ client.researchId # NoId \/ client.results # NoResults
    /\ client' = [client EXCEPT
                     !.researchId = NoId, !.results = NoResults, !.query = <<>>,
                     !.timers = ClearInterval(client.timers, client.pollInterval),
                     !.saved = NoId, !.wasReset = TRUE]
    /\ response' = NoResponse
    /\ UNCHANGED <<env, now, researchCache, run>>

\* the page is loaded again: the script starts from its initial values,
\* the intervals and callbacks of the page before are gone, and onMount
\* takes the researchId from localStorage and calls checkResults
Reload ==
    /\ client' =
          IF client.saved = NoId
          THEN [IdleClient EXCEPT !.created = client.created]
          ELSE [IdleClient EXCEPT
                   !.created = client.created,
                   !.saved = client.saved,
                   !.researchId = client.saved,
                   !.checking = TRUE,
                   !.polls = {StatusRequest(NoTimer, client.saved)}]
    /\ client' # client
    /\ response' = NoResponse
    /\ UNCHANGED <<env, now, researchCache, run>>

(***************************************************************************)
(* Specification of the page: one user, the enqueue and poll endpoints,    *)
(* and the pipeline without faults, for a server that has its secrets      *)
(* configured and whose clock stands at some reading.                      *)
(***************************************************************************)
\* the topics the user asks for; the user does not ask again for a topic
\* the server has taken a job for
PageQueries == Queries
NewTopics == {q \in PageQueries : \A r \in RIDs : run[r].query # q}

InitClient ==
    /\ env \in [impl : {"blogs", "angles"}, WEBHOOK_SECRET : {"s3cret"},
                 COZY_API_KEY : {"k3y"}]
    /\ now = MaxClock
    /\ researchCache = [r \in RIDs |-> NoRecord]
    /\ run = [r \in RIDs |-> IdleRun]
    /\ response = NoResponse
    /\ client = IdleClient

Server ==
    \/ Pipeline(HookEmitted, FALSE, TRUE)
    \/ \E payload \in InFlight, t \in Times : WebhookPOST(payload, t)

NextClient ==
    \/ \E q \in NewTopics : StartResearch(q)
    \/ \E delivered \in BOOLEAN : PageEnqueue(delivered)
    \/ StartReply
    \/ \E timer \in Timers : TimerTick(timer)
    \/ \E request \in client.polls, reached \in BOOLEAN : StatusReply(request, reached)
    \/ CheckResults
    \/ ResetSearch
    \/ Reload
    \/ Server

SpecClient == InitClient /\ [][NextClient]_vars

\* C29: the reset of the page is final: after resetSearch has run, results
\* and researchId stay null until the user starts a new research, whatever
\* becomes of a status request that was under way when the reset happened.
C29_ResetIsFinal ==
    client.wasReset =>
        /\ client.researchId = NoId
        /\ client.results = NoResults

\* the status requests the callback of an interval sends in this step
Sent == {request \in client'.polls \ client.polls : request.timer # NoTimer}

\* a status request of an interval comes from the interval pollInterval
\* holds, which is active and has not seen its job completed
C30_Step ==
    \A request \in Sent :
        /\ request.timer \in client.timers
        /\ request.timer = client.pollInterval
        /\ request.timer \notin client.finished

NextPolling ==
    \/ \E q \in NewTopics : StartResearch(q)
    \/ \E delivered \in BOOLEAN : PageEnqueue(delivered)
    \/ StartReply
    \/ \E timer \in Timers : TimerTick(timer)
    \/ \E request \in client.polls, reached \in BOOLEAN : StatusReply(request, reached)
    \/ Server

FairPolling ==
    /\ WF_vars(\E timer \in Timers : TimerTick(timer))
    /\ SF_vars(\E request \in client.polls : StatusReply(request, TRUE))

SpecPolling == InitClient /\ [][NextPolling]_vars /\ FairPolling

\* a status request of an interval is answered, and the answer is not a
\* completed record: 404, a record of another status, or no answer at all
Unfinished(request, reached) ==
    /\ request.timer # NoTimer
    /\ StatusReply(request, reached)
    /\ ~(reached /\ response'.code = 200 /\ response'.status = "completed")

\* the page goes on polling after such an answer
C28_KeepsPolling ==
    [][ \A request \in client.polls, reached \in BOOLEAN :
          Unfinished(request, reached) =>
              /\ client'.timers = client.timers
              /\ client'.pollInterval = client.pollInterval
              /\ client'.results = client.results ]_vars

\* the page polls for a job whose pipeline has run to its end
PipelineCompleted(rid) == client.researchId = rid /\ run[rid].pc = "done"

\* the page has its results and its interval is stopped
PageCompleted(rid) ==
    /\ client.researchId = rid
    /\ client.results # NoResults
    /\ client.timers = {}
    /\ client.pollInterval = NoTimer

\* C28: a page that started a research keeps polling while polls return
\* 404 or fail, and if the pipeline of its researchId completes then, with
\* the poll timer scheduled fairly, the page eventually receives a poll
\* with status completed, sets its results and stops its poll timer.
C28_PollingLiveness ==
    /\ C28_KeepsPolling
    /\ \A rid \in RIDs : PipelineCompleted(rid) ~> PageCompleted(rid)

====
